---- MODULE Spec2Model ----
(***************************************************************************)
(* Model of the two laboratory pipelines of 2024-hello-llm:                *)
(*   lab_7_llm : inference of a sequence-classification model             *)
(*   lab_8_sft : fine-tuning and inference of a seq2seq summarizer         *)
(* with the demo of lab_7_llm (start.py) and the service of lab_8_sft.     *)
(*                                                                         *)
(* A cell of a table is an optional value: <<>> is a missing value         *)
(* (None/NaN), <<v>> is the value v.  A text is a sequence of pieces; the  *)
(* Python string is the concatenation of the pieces.  A table (DataFrame)  *)
(* is a record of its column names, its index labels and its rows, each    *)
(* row a function from column name to cell.                                *)
(***************************************************************************)
EXTENDS Integers, Sequences, FiniteSets, TLC

VARIABLES
    lab,            \* which laboratory's classes are in use
    raw_data,       \* RawDataPreprocessor._raw_data
    data,           \* RawDataPreprocessor._data: <<>> before transform()
    analysis,       \* what the last analyze() returned: <<>> before any call
    origin,         \* for every clean row, the raw position it came from
    raw0,           \* the raw table the preprocessor was constructed with
    first_data,     \* the clean table after the first transform()
    prev_analysis,  \* what the call of analyze() before the last returned
    n_transform,    \* calls of transform() so far
    n_analyze,      \* calls of analyze() so far
    dataset,        \* LLMPipeline._dataset: the clean table the TaskDataset wraps
    model,          \* LLMPipeline._model: <<>> when no model is assigned
    batch_size,     \* LLMPipeline._batch_size
    pc,             \* "idle", or "infer_dataset" inside its loop over the batches
    batches,        \* infer_dataset(): the batches the DataLoader has yet to yield
    predictions,    \* infer_dataset(): the local list of predictions
    events,         \* infer_dataset(): the tokenizer and model calls made so far
    argmaxes,       \* infer_dataset(): the arg-max indices the model gave so far
    last,           \* outcome of the last inference operation: <<>> before any
    predictions_csv,\* the predictions file: <<>> while it does not exist
    metrics,        \* outcome of TaskEvaluator.run(): <<>> before it ran
    sft_params,     \* SFTPipeline: output path, batch size, step budget, learning rate
    sft_model,      \* SFTPipeline._model
    sft_pc,         \* where SFTPipeline.run() stands
    sft_log,        \* the training, merging and saving steps run() has made
    sft_outcome,    \* how run() ended: <<>> while it has not
    out_dir,        \* the fine-tuned model directory: <<>> while it does not exist
    out_dir0,       \* the directory as it was when the pipeline was constructed
    svc_pc,         \* service of lab_8_sft: where init_application() stands
    svc_base,       \* service: the pipeline of the base model, <<>> before it is loaded
    svc_finetuned,  \* service: the pipeline of the fine-tuned model
    svc_log,        \* service: the steps init_application() has made
    svc_request,    \* service: the last query of /infer, <<>> before any
    svc_calls,      \* service: the pipeline calls made for the last query
    svc_response,   \* service: the outcome of the last query
    demo_pc,        \* start.py of lab_7_llm: the stage main() is to run next
    demo_trace,     \* demo: the stages main() has run, each with its outcome
    demo_raw,       \* demo: RawDataImporter._raw_data, <<>> while there is none
    demo_file0,     \* demo: the predictions file as it was before the run
    demo_read,      \* demo: the file the evaluator read, <<>> before it did
    tok_m,          \* the max_length a TokenizedTaskDataset is constructed with
    tok_data,       \* TokenizedTaskDataset._data: <<>> before construction
    tok_got         \* what the last TokenizedTaskDataset.__getitem__ gave

prep_vars == <<raw_data, data, analysis, origin, raw0, first_data,
               prev_analysis, n_transform, n_analyze>>

infer_vars == <<dataset, model, batch_size, pc, batches, predictions, events,
                argmaxes, last, predictions_csv, metrics>>

sft_vars == <<sft_params, sft_model, sft_pc, sft_log, sft_outcome, out_dir,
              out_dir0>>

svc_vars == <<svc_pc, svc_base, svc_finetuned, svc_log, svc_request,
              svc_calls, svc_response>>

demo_vars == <<demo_pc, demo_trace, demo_raw, demo_file0, demo_read>>

tok_vars == <<tok_m, tok_data, tok_got>>

vars == <<lab, prep_vars, infer_vars, sft_vars, svc_vars, demo_vars, tok_vars>>

\* what the preprocessor, the inference pipeline, the fine-tuning pipeline
\* leave alone
not_prep_vars == <<infer_vars, sft_vars, svc_vars, demo_vars, tok_vars>>
not_infer_vars == <<prep_vars, sft_vars, svc_vars, demo_vars, tok_vars>>
not_sft_vars == <<prep_vars, infer_vars, svc_vars, demo_vars, tok_vars>>
not_svc_vars == <<prep_vars, infer_vars, demo_vars, tok_vars>>
not_demo_vars == <<sft_vars, svc_vars, tok_vars>>
not_tok_vars == <<infer_vars, sft_vars, svc_vars, demo_vars>>

----------------------------------------------------------------------------
(* Bounds of the model *)

MaxRows == 3
MaxCalls == 2
MaxBatch == 3
MaxSteps == 3

----------------------------------------------------------------------------
(* Optional values, sequences, texts *)

None == <<>>
Some(v) == <<v>>
IsNull(c) == c = <<>>

Labs == {"lab_7_llm", "lab_8_sft"}

Range(s) == {s[i] : i \in DOMAIN s}

SeqsUpTo(S, n) == UNION {[1..k -> S] : k \in 0..n}

RECURSIVE SumLen(_)
SumLen(text) ==
    IF text = <<>> THEN 0 ELSE Len(Head(text)) + SumLen(Tail(text))

\* len(s) of the Python string a text stands for
StrLen(text) == SumLen(text)

SetMin(S) == CHOOSE m \in S : \A x \in S : m <= x
SetMax(S) == CHOOSE m \in S : \A x \in S : m >= x

\* the elements of s at the positions P, in increasing position
RECURSIVE PickFrom(_, _, _)
PickFrom(s, P, i) ==
    IF i > Len(s) THEN <<>>
    ELSE (IF i \in P THEN <<s[i]>> ELSE <<>>) \o PickFrom(s, P, i + 1)

Pick(s, P) == PickFrom(s, P, 1)

----------------------------------------------------------------------------
(* pandas operations used by the preprocessors *)

RangeIndex(n) == [i \in 1..n |-> i - 1]

DataFrame(cols, rows) ==
    [columns |-> cols, index |-> RangeIndex(Len(rows)), rows |-> rows]

\* df.drop(names, axis=1)
drop(df, names) ==
    [columns |-> SelectSeq(df.columns, LAMBDA c : c \notin names),
     index   |-> df.index,
     rows    |-> [i \in DOMAIN df.rows |->
                    [c \in (DOMAIN df.rows[i]) \ names |-> df.rows[i][c]]]]

\* df.rename(columns={a: "target", b: "source"})
rename(df, target_from, source_from) ==
    LET new(c) == IF c = target_from THEN "target"
                  ELSE IF c = source_from THEN "source" ELSE c
        old(c) == IF c = "target" THEN target_from
                  ELSE IF c = "source" THEN source_from ELSE c
    IN [columns |-> [i \in DOMAIN df.columns |-> new(df.columns[i])],
        index   |-> df.index,
        rows    |-> [i \in DOMAIN df.rows |->
                       [c \in {new(k) : k \in DOMAIN df.rows[i]} |->
                          df.rows[i][old(c)]]]]

\* the rows at the positions P, with their index labels
take(df, P) ==
    [columns |-> df.columns,
     index   |-> Pick(df.index, P),
     rows    |-> Pick(df.rows, P)]

RowHasNull(row) == \E c \in DOMAIN row : IsNull(row[c])

\* df.isnull().any(axis=1)
isnull_any(df) == {i \in DOMAIN df.rows : RowHasNull(df.rows[i])}

\* df.dropna()
dropna(df) == take(df, (DOMAIN df.rows) \ isnull_any(df))

\* as duplicated(df, keep=False): every row of a group of equal rows
duplicated_keep_false(df) ==
    {i \in DOMAIN df.rows :
        \E j \in (DOMAIN df.rows) \ {i} : df.rows[j] = df.rows[i]}

\* df.duplicated(): a row equal to an earlier row (missing equals missing)
duplicated(df) ==
    {i \in DOMAIN df.rows : \E j \in 1..(i - 1) : df.rows[j] = df.rows[i]}

\* df.drop_duplicates()
drop_duplicates(df) == take(df, (DOMAIN df.rows) \ duplicated(df))

\* df.reset_index(inplace=True, drop=True)
reset_index(df) ==
    [columns |-> df.columns,
     index   |-> RangeIndex(Len(df.rows)),
     rows    |-> df.rows]

\* df[col]: the cells of a column, row by row
column(df, col) == [i \in DOMAIN df.rows |-> df.rows[i][col]]

\* df[col] = cells
assign(df, col, cells) ==
    [columns |-> df.columns,
     index   |-> df.index,
     rows    |-> [i \in DOMAIN df.rows |->
                    [c \in DOMAIN df.rows[i] |->
                       IF c = col THEN cells[i] ELSE df.rows[i][c]]]]

----------------------------------------------------------------------------
(* The frame objects of a preprocessor.  self._raw_data and self._data are
   references to DataFrame objects.  A method called without inplace=True
   returns a new object and leaves the one it is called on as it was; an item
   assignment and a method called with inplace=True change the object they
   are applied to. *)

\* the objects of a preprocessor whose raw table is raw and whose clean table
\* is d (None before the first transform()); ref is the object the
\* expression under evaluation has yielded
Preprocessor(raw, d) ==
    [frames |-> IF d = None THEN <<raw>> ELSE <<raw, d[1]>>,
     raw    |-> 1,
     data   |-> IF d = None THEN 0 ELSE 2,
     ref    |-> 0]

Value(o) == o.frames[o.ref]

Raw(o) == o.frames[o.raw]

Data(o) == o.frames[o.data]

\* the result of a method that returns a new frame
NewFrame(o, df) ==
    [o EXCEPT !.frames = Append(@, df), !.ref = Len(o.frames) + 1]

\* self._raw_data
load_raw(o) == [o EXCEPT !.ref = o.raw]

\* as .drop(names, axis=1, inplace=True) on the frame it is called on
call_drop_inplace(o, names) == [o EXCEPT !.frames[o.ref] = drop(@, names)]

\* .drop(names, axis=1)
call_drop(o, names) == NewFrame(o, drop(Value(o), names))

\* .rename(columns={...})
call_rename(o, target_from, source_from) ==
    NewFrame(o, rename(Value(o), target_from, source_from))

\* .dropna()
call_dropna(o) == NewFrame(o, dropna(Value(o)))

\* .drop_duplicates()
call_drop_duplicates(o) == NewFrame(o, drop_duplicates(Value(o)))

\* self._data = <expression>
bind_data(o) == [o EXCEPT !.data = o.ref]

\* self._data[col] = cells
setitem_data(o, col, cells) ==
    [o EXCEPT !.frames[o.data] = assign(@, col, cells)]

\* self._data.reset_index(inplace=True, drop=True)
reset_index_inplace(o) == [o EXCEPT !.frames[o.data] = reset_index(@)]

----------------------------------------------------------------------------
(* RawDataPreprocessor of lab_7_llm *)

Columns7 ==
    <<"part", "movie_name", "review_id", "author", "date", "title",
      "grade3", "grade10", "content">>

Dropped7 ==
    {"part", "movie_name", "review_id", "author", "date", "title", "grade10"}

\* Series.map({"Good": 1, "Bad": 2, "Neutral": 0}): a value that is no key
\* of the dictionary becomes missing
LabelMap7(cell) ==
    IF IsNull(cell) THEN None
    ELSE IF cell[1] = "Good" THEN Some(1)
    ELSE IF cell[1] = "Bad" THEN Some(2)
    ELSE IF cell[1] = "Neutral" THEN Some(0)
    ELSE None

\* self._data = self._raw_data.drop(...).rename(...).dropna()
Selected7(o) ==
    bind_data(call_dropna(call_rename(call_drop(load_raw(o), Dropped7),
                                      "grade3", "content")))

\* self._data["target"] = self._data["target"].map(...)
Mapped7(o) ==
    LET target == column(Data(Selected7(o)), "target")
    IN setitem_data(Selected7(o), "target",
                    [i \in DOMAIN target |-> LabelMap7(target[i])])

Transform7(o) == reset_index_inplace(Mapped7(o))

----------------------------------------------------------------------------
(* RawDataPreprocessor of lab_8_sft *)

Columns8 == <<"id", "article", "highlights">>

\* Series.str.replace("(CNN)", ""): the literal is removed, a missing value
\* stays missing
RemoveCNN(cell) ==
    IF IsNull(cell) THEN None
    ELSE Some(SelectSeq(cell[1], LAMBDA p : p # "(CNN)"))

\* self._data = self._raw_data.drop(["id"], axis=1).rename(...)
\*                  .drop_duplicates()
Selected8(o) ==
    bind_data(call_drop_duplicates(call_rename(call_drop(load_raw(o), {"id"}),
                                               "highlights", "article")))

\* self._data["source"] = self._data["source"].str.replace("(CNN)", "")
Mapped8(o) ==
    LET source == column(Data(Selected8(o)), "source")
    IN setitem_data(Selected8(o), "source",
                    [i \in DOMAIN source |-> RemoveCNN(source[i])])

Transform8(o) == reset_index_inplace(Mapped8(o))

----------------------------------------------------------------------------
(* Both labs *)

SourceColumn(l) == IF l = "lab_7_llm" THEN "content" ELSE "article"

\* the clean table of a new preprocessor before its index is reset
BeforeReset(l, raw) ==
    Data(IF l = "lab_7_llm" THEN Mapped7(Preprocessor(raw, None))
         ELSE Mapped8(Preprocessor(raw, None)))

\* transform() on the objects of a preprocessor
TransformCall(l, o) == IF l = "lab_7_llm" THEN Transform7(o) ELSE Transform8(o)

\* the clean table of a new preprocessor after transform()
Transform(l, raw) == Data(TransformCall(l, Preprocessor(raw, None)))

\* the lengths of the source texts that are not missing
SampleLens(l, raw) ==
    {StrLen(raw.rows[i][SourceColumn(l)][1]) :
        i \in {j \in DOMAIN raw.rows : ~IsNull(raw.rows[j][SourceColumn(l)])}}

\* Series.min() and Series.max() of an empty series are NaN
SampleMin(l, raw) ==
    IF SampleLens(l, raw) = {} THEN None ELSE Some(SetMin(SampleLens(l, raw)))

SampleMax(l, raw) ==
    IF SampleLens(l, raw) = {} THEN None ELSE Some(SetMax(SampleLens(l, raw)))

Analyze(l, raw) ==
    [dataset_number_of_samples |-> Len(raw.rows),
     dataset_columns           |-> Len(raw.columns),
     dataset_duplicates        |-> Cardinality(duplicated(raw)),
     dataset_empty_rows        |-> Cardinality(isnull_any(raw)),
     dataset_sample_min_len    |-> SampleMin(l, raw),
     dataset_sample_max_len    |-> SampleMax(l, raw)]

----------------------------------------------------------------------------
(* The raw tables the importers can deliver *)

T(s) == Some(<<s>>)

Row7(content, grade3, title) ==
    [c \in Range(Columns7) |->
        IF c = "content" THEN content
        ELSE IF c = "grade3" THEN grade3
        ELSE IF c = "title" THEN title
        ELSE Some("x")]

RawRows7 ==
    {Row7(T("good movie"), Some("Good"), Some("t")),
     Row7(T("bad movie"), Some("Bad"), Some("t")),
     Row7(T("ok movie"), Some("Neutral"), Some("t")),
     Row7(T("ok movie"), Some("Excellent"), Some("t")),
     Row7(None, Some("Good"), Some("t")),
     Row7(T("bad movie"), None, Some("t")),
     Row7(T("fine"), Some("Good"), None)}

Row8(id, article, highlights) ==
    [c \in Range(Columns8) |->
        IF c = "id" THEN id
        ELSE IF c = "article" THEN article ELSE highlights]

RawRows8 ==
    {Row8(Some("a"), Some(<<"(CNN)", "storm", " hits">>), T("storm")),
     Row8(Some("b"), Some(<<"(CNN)", "storm", " hits">>), T("storm")),
     Row8(Some("c"), Some(<<"storm", " hits">>), T("storm")),
     Row8(Some("d"), Some(<<"vote", " ", "(CNN)", "day">>), T("vote")),
     Row8(Some("e"), None, T("vote")),
     Row8(Some("f"), Some(<<"rain">>), None),
     Row8(None, Some(<<"rain">>), T("wet"))}

RawTables(l) ==
    IF l = "lab_7_llm"
    THEN {DataFrame(Columns7, rows) : rows \in SeqsUpTo(RawRows7, MaxRows)}
    ELSE {DataFrame(Columns8, rows) : rows \in SeqsUpTo(RawRows8, MaxRows)}

----------------------------------------------------------------------------
(* The preprocessor: construction, analyze(), transform() *)

\* the fine-tuning pipeline's variables while none is constructed
NoSFTPipeline ==
    /\ sft_params = [path |-> None, batch_size |-> None, max_steps |-> None,
                     learning_rate |-> None]
    /\ sft_model = [valid |-> FALSE, trained |-> 0, merged |-> FALSE]
    /\ sft_pc = "ready"
    /\ sft_log = <<>>
    /\ sft_outcome = None
    /\ out_dir = None
    /\ out_dir0 = None

\* the tokenized dataset's variables while none is constructed
NoTokenized ==
    /\ tok_m = None
    /\ tok_data = None
    /\ tok_got = None

\* the demo's variables while main() is not run
NoDemo ==
    /\ NoTokenized
    /\ demo_pc = "off"
    /\ demo_trace = <<>>
    /\ demo_raw = None
    /\ demo_file0 = None
    /\ demo_read = None

\* the service's variables while no service is started
NoService ==
    /\ svc_pc = "off"
    /\ svc_base = None
    /\ svc_finetuned = None
    /\ svc_log = <<>>
    /\ svc_request = None
    /\ svc_calls = <<>>
    /\ svc_response = None
    /\ NoDemo

\* the pipeline's variables while no pipeline is constructed
NoPipeline ==
    /\ dataset = DataFrame(<<>>, <<>>)
    /\ model = None
    /\ batch_size = 1
    /\ pc = "idle"
    /\ batches = <<>>
    /\ predictions = <<>>
    /\ events = <<>>
    /\ argmaxes = <<>>
    /\ last = None
    /\ predictions_csv = None
    /\ metrics = None

InitPrep ==
    /\ NoPipeline
    /\ NoSFTPipeline
    /\ NoService
    /\ lab \in Labs
    /\ raw_data \in RawTables(lab)
    /\ raw0 = raw_data
    /\ data = None
    /\ analysis = None
    /\ prev_analysis = None
    /\ origin = <<>>
    /\ first_data = None
    /\ n_transform = 0
    /\ n_analyze = 0

analyze ==
    /\ n_analyze < MaxCalls
    /\ analysis' = Some(Analyze(lab, raw_data))
    /\ prev_analysis' = analysis
    /\ n_analyze' = n_analyze + 1
    /\ UNCHANGED <<lab, raw_data, data, origin, raw0, first_data, n_transform>>
    /\ UNCHANGED not_prep_vars

transform ==
    /\ n_transform < MaxCalls
    /\ data' = Some(Data(TransformCall(lab, Preprocessor(raw_data, data))))
    /\ raw_data' = Raw(TransformCall(lab, Preprocessor(raw_data, data)))
    /\ origin' = BeforeReset(lab, raw_data).index
    /\ first_data' = IF n_transform = 0 THEN data' ELSE first_data
    /\ n_transform' = n_transform + 1
    /\ UNCHANGED <<lab, analysis, prev_analysis, raw0, n_analyze>>
    /\ UNCHANGED not_prep_vars

NextPrep == analyze \/ transform

SpecPrep == InitPrep /\ [][NextPrep]_vars

----------------------------------------------------------------------------
(* Properties of the preprocessor *)

CleanRows == data[1].rows

\* C8: transform() called again on the same preprocessor yields the clean
\* table the first call yielded, and no call of transform() changes the raw
\* table (rows, columns, values, order), in both labs.
C8_TransformIdempotent ==
    /\ n_transform >= 1 => raw_data = raw0
    /\ n_transform >= 2 => data = first_data

\* transform() has run twice on a raw table from which it removes rows
C8_Witness ==
    /\ n_transform = 2
    /\ CleanRows # <<>>
    /\ Len(CleanRows) < Len(raw_data.rows)

\* C9: after transform() the clean table has no missing value in the source
\* or the target column, in both labs; its rows keep the relative order of
\* the raw rows they come from; its index is the dense sequence 0..n-1.
C9_CleanTableInvariant ==
    data # None =>
        /\ \A i \in DOMAIN CleanRows :
              /\ ~IsNull(CleanRows[i]["source"])
              /\ ~IsNull(CleanRows[i]["target"])
        /\ \A i, j \in DOMAIN origin : i < j => origin[i] < origin[j]
        /\ data[1].index = [i \in DOMAIN CleanRows |-> i - 1]

\* the statistics of the raw table, computed without the pandas operations
RowCount == Len(raw0.rows)
DistinctRows == Cardinality(Range(raw0.rows))
CompleteRows ==
    Cardinality({i \in DOMAIN raw0.rows :
                    \A c \in Range(raw0.columns) : raw0.rows[i][c] # <<>>})
SourceTexts ==
    {raw0.rows[i][SourceColumn(lab)][1] :
        i \in {j \in DOMAIN raw0.rows : raw0.rows[j][SourceColumn(lab)] # <<>>}}
IsShortest(m) ==
    /\ \E t \in SourceTexts : StrLen(t) = m
    /\ ~\E t \in SourceTexts : StrLen(t) < m
IsLongest(m) ==
    /\ \E t \in SourceTexts : StrLen(t) = m
    /\ ~\E t \in SourceTexts : StrLen(t) > m

C10_Statistics ==
    analysis # None =>
        LET a == analysis[1] IN
        /\ a.dataset_number_of_samples = RowCount
        /\ a.dataset_columns = Cardinality(Range(raw0.columns))
        /\ a.dataset_duplicates = RowCount - DistinctRows
        /\ a.dataset_empty_rows = RowCount - CompleteRows
        /\ IF SourceTexts = {}
           THEN a.dataset_sample_min_len = None /\ a.dataset_sample_max_len = None
           ELSE /\ a.dataset_sample_min_len # None
                /\ a.dataset_sample_max_len # None
                /\ IsShortest(a.dataset_sample_min_len[1])
                /\ IsLongest(a.dataset_sample_max_len[1])
        /\ prev_analysis # None => prev_analysis = analysis

C10_Frame ==
    n_analyze' # n_analyze => raw_data' = raw_data /\ data' = data

\* C10: analyze() changes neither the raw table nor the clean table; it
\* returns the row count, the column count, the number of duplicate rows,
\* the number of rows with a missing value and the minimum and maximum
\* length of the source text (NaN when no source text is present), each
\* equal to the value computed independently from the raw table; two
\* successive calls return the same result.
C10_AnalyzePure == []C10_Statistics /\ [][C10_Frame]_vars

\* analyze() has run twice, after a transform(), on a raw table with a
\* duplicate row, an incomplete row and source texts of different lengths
C10_Witness ==
    /\ n_analyze = 2
    /\ n_transform >= 1
    /\ analysis # None
    /\ analysis[1].dataset_duplicates > 0
    /\ analysis[1].dataset_empty_rows > 0
    /\ analysis[1].dataset_sample_min_len # None
    /\ analysis[1].dataset_sample_min_len # analysis[1].dataset_sample_max_len

----------------------------------------------------------------------------
(* The tokenizer and the stub models the pipelines are run with *)

MaxLength == 120

Min(a, b) == IF a < b THEN a ELSE b

Digits == <<"0", "1", "2", "3", "4", "5", "6", "7", "8", "9">>

\* str(i) of a one-digit integer
IntStr(i) == Digits[i + 1]

\* truncation=True, max_length=n
Truncate(text, n) == SubSeq(text, 1, Min(Len(text), n))

\* tokenizer(texts, max_length=..., padding=True, truncation=True): every
\* piece of a text is a token; an input that is not text is refused
Tokenizer(cells, max_length) ==
    IF \E i \in DOMAIN cells : IsNull(cells[i])
    THEN [ok |-> FALSE, input_ids |-> <<>>, attention_mask |-> <<>>]
    ELSE LET toks == [i \in DOMAIN cells |-> Truncate(cells[i][1], max_length)]
             width == SetMax({Len(toks[i]) : i \in DOMAIN toks})
         IN [ok |-> TRUE,
             input_ids |->
                [i \in DOMAIN toks |->
                    toks[i] \o [j \in 1..(width - Len(toks[i])) |-> "[PAD]"]],
             attention_mask |->
                [i \in DOMAIN toks |->
                    [j \in 1..width |-> IF j <= Len(toks[i]) THEN 1 ELSE 0]]]

\* the tokens of an encoded text that are not padding
Unpadded(ids, mask) ==
    SubSeq(ids, 1, Cardinality({j \in DOMAIN mask : mask[j] = 1}))

ClassIndices == 0..3

\* stand-ins for BertForSequenceClassification: the class is fixed, or
\* depends on the text
StubModels7 ==
    {[kind |-> "const", cls |-> c] : c \in ClassIndices}
        \cup {[kind |-> "length", cls |-> 0]}

\* stand-ins for AutoModelForSeq2SeqLM: the summary is the first token of
\* the text, or a fixed text
StubModels8 == {[kind |-> "lead", cls |-> 0], [kind |-> "const", cls |-> 0]}

StubModels(l) == IF l = "lab_7_llm" THEN StubModels7 ELSE StubModels8

\* torch.argmax(self._model(**inputs).logits, dim=1) of one item
ArgMax(m, ids, mask) ==
    IF m.kind = "const" THEN m.cls
    ELSE SumLen(Unpadded(ids, mask)) % 3

\* self._model.generate(**inputs, max_length=n) of one item
Generate(m, ids, mask, n) ==
    LET body == IF m.kind = "const" THEN <<"news">>
                ELSE Truncate(Unpadded(ids, mask), 1)
    IN Truncate(<<"<pad>">> \o body \o <<"</s>">>, n)

\* tokenizer.batch_decode(outputs, skip_special_tokens=True) of one item
Decode(tokens) == SelectSeq(tokens, LAMBDA t : t \notin {"<pad>", "</s>"})

----------------------------------------------------------------------------
(* LLMPipeline._infer_batch of both labs *)

NoModelError == "ValueError: There is no model"

Event(call, cells) == [call |-> call, texts |-> cells]

Outcome(status, value, error, evs, am) ==
    [status |-> status, value |-> value, error |-> error,
     events |-> evs, argmax |-> am]

\* as a decoding that swaps the codes 0 and 2
Label7_swap(i) == IF i = 0 THEN "2" ELSE IF i = 2 THEN "0" ELSE IntStr(i)

\* str(i) if i != 0 else "2"
Label7(i) == IF i # 0 THEN IntStr(i) ELSE "2"

InferBatch7(m, sample_batch, max_length) ==
    LET cells == sample_batch[1]
        inputs == Tokenizer(cells, max_length)
        tok == Event("tokenizer", cells)
    IN IF ~inputs.ok
       THEN Outcome("raised", <<>>, "tokenizer: input is not text", <<tok>>, <<>>)
       ELSE IF m = None
       THEN Outcome("raised", <<>>, NoModelError, <<tok>>, <<>>)
       ELSE LET predicted ==
                    [i \in DOMAIN cells |->
                        ArgMax(m[1], inputs.input_ids[i], inputs.attention_mask[i])]
            IN Outcome("returned",
                       [i \in DOMAIN predicted |-> Label7(predicted[i])], "",
                       <<tok, Event("model", cells)>>, predicted)

InferBatch8(m, sample_batch, max_length) ==
    LET cells == sample_batch[1]
        inputs == Tokenizer(cells, max_length)
        tok == Event("tokenizer", cells)
    IN IF m = None
       THEN Outcome("raised", <<>>,
                    "AttributeError: 'NoneType' object has no attribute 'eval'",
                    <<>>, <<>>)
       ELSE IF ~inputs.ok
       THEN Outcome("raised", <<>>, "tokenizer: input is not text",
                    <<Event("eval", <<>>), tok>>, <<>>)
       ELSE Outcome("returned",
                    [i \in DOMAIN cells |->
                        Decode(Generate(m[1], inputs.input_ids[i],
                                        inputs.attention_mask[i], max_length))],
                    "", <<Event("eval", <<>>), tok, Event("model", cells)>>, <<>>)

InferBatch(l, m, sample_batch, max_length) ==
    IF l = "lab_7_llm" THEN InferBatch7(m, sample_batch, max_length)
    ELSE InferBatch8(m, sample_batch, max_length)

----------------------------------------------------------------------------
(* TaskDataset, DataLoader, LLMPipeline.infer_sample and infer_dataset *)

\* TaskDataset.__len__
DatasetLen(df) == Len(df.rows)

\* TaskDataset.__getitem__: the source cell under the index label, in a tuple
GetItem(df, index) ==
    LET pos == CHOOSE k \in DOMAIN df.index : df.index[k] = index
    IN <<df.rows[pos]["source"]>>

\* as a DataLoader constructed with drop_last=True
DataLoaderBatches_drop_last(n, b) ==
    [k \in 1..(n \div b) |-> [j \in 1..b |-> (k - 1) * b + j - 1]]

\* DataLoader(dataset, batch_size=b): the indices 0..n-1 in order, b to a
\* batch, the last batch holding what is left
DataLoaderBatches(n, b) ==
    [k \in 1..((n + b - 1) \div b) |->
        [j \in 1..Min(b, n - (k - 1) * b) |-> (k - 1) * b + j - 1]]

\* default collate of a list of 1-tuples: one sequence of the tuples'
\* elements. Texts are passed on as they are; a first element that is a
\* missing value (a float) makes a tensor of the elements, which fails when
\* a text is among them
Collate(items) ==
    LET cells == [j \in DOMAIN items |-> items[j][1]]
    IN [ok    |-> ~(IsNull(cells[1]) /\ \E j \in DOMAIN cells : ~IsNull(cells[j])),
        batch |-> <<cells>>]

\* as an infer_sample that leaves the check of the model to _infer_batch
InferSample_unguarded(l, m, sample, max_length) ==
    LET r == InferBatch(l, m, <<sample>>, max_length)
    IN IF r.status = "returned"
       THEN Outcome("returned", r.value[1], "", r.events, r.argmax)
       ELSE r

InferSample(l, m, sample, max_length) ==
    IF m = None
    THEN Outcome("raised", <<>>, NoModelError, <<>>, <<>>)
    ELSE LET r == InferBatch(l, m, <<sample>>, max_length)
         IN IF r.status = "returned"
            THEN Outcome("returned", r.value[1], "", r.events, r.argmax)
            ELSE r

\* pd.DataFrame({"target": dataset.data["target"], "prediction": predictions}):
\* the index is the target column's; a list of another length is refused
PredictionsFrame(df, preds) ==
    IF Len(preds) # Len(df.rows)
    THEN Outcome("raised", <<>>,
                 "ValueError: Length of values does not match length of index",
                 events, argmaxes)
    ELSE Outcome("returned",
                 [columns |-> <<"target", "prediction">>,
                  index   |-> df.index,
                  rows    |-> [i \in DOMAIN df.rows |->
                                 [target     |-> df.rows[i]["target"],
                                  prediction |-> Some(preds[i])]]],
                 "", events, argmaxes)

\* the samples infer_sample is called with: an item of the dataset, or the
\* question of a request
Samples ==
    {GetItem(dataset, dataset.index[k]) : k \in DOMAIN dataset.index}
        \cup {<<T("ok movie")>>}

Operation(op, arg, outcome) == Some([op |-> op, arg |-> arg] @@ outcome)

\* infer_dataset() was the last operation and returned its table
DatasetReturned ==
    last # None /\ last[1].op = "infer_dataset" /\ last[1].status = "returned"

infer_sample ==
    /\ pc = "idle"
    /\ predictions_csv = None
    /\ \E sample \in Samples :
          last' = Operation("infer_sample", sample,
                            InferSample(lab, model, sample, MaxLength))
    /\ UNCHANGED <<lab, not_infer_vars, dataset, model, batch_size, pc, batches,
                   predictions, events, argmaxes, predictions_csv, metrics>>

\* infer_dataset() up to its loop: the DataLoader and the empty list
infer_dataset_begin ==
    /\ pc = "idle"
    /\ predictions_csv = None
    /\ pc' = "infer_dataset"
    /\ batches' = DataLoaderBatches(DatasetLen(dataset), batch_size)
    /\ predictions' = <<>>
    /\ events' = <<>>
    /\ argmaxes' = <<>>
    /\ last' = None
    /\ UNCHANGED <<lab, not_infer_vars, dataset, model, batch_size,
                   predictions_csv, metrics>>

\* one round of the loop: the next batch is collated and inferred
infer_dataset_batch ==
    /\ pc = "infer_dataset"
    /\ batches # <<>>
    /\ LET collated == Collate([j \in DOMAIN Head(batches) |->
                                   GetItem(dataset, Head(batches)[j])])
           r == IF collated.ok
                THEN InferBatch(lab, model, collated.batch, MaxLength)
                ELSE Outcome("raised", <<>>, "TypeError: default_collate",
                             <<>>, <<>>)
       IN /\ events' = events \o r.events
          /\ argmaxes' = argmaxes \o r.argmax
          /\ IF r.status = "returned"
             THEN /\ predictions' = predictions \o r.value
                  /\ batches' = Tail(batches)
                  /\ UNCHANGED <<pc, last>>
             ELSE /\ pc' = "idle"
                  /\ last' = Operation("infer_dataset", <<>>,
                                 Outcome("raised", <<>>, r.error, events', argmaxes'))
                  /\ batches' = <<>>
                  /\ UNCHANGED predictions
    /\ UNCHANGED <<lab, not_infer_vars, dataset, model, batch_size,
                   predictions_csv, metrics>>

\* after the loop: the table of targets and predictions is returned
infer_dataset_return ==
    /\ pc = "infer_dataset"
    /\ batches = <<>>
    /\ pc' = "idle"
    /\ last' = Operation("infer_dataset", <<>>,
                         PredictionsFrame(dataset, predictions))
    /\ UNCHANGED <<lab, not_infer_vars, dataset, model, batch_size, batches,
                   predictions, events, argmaxes, predictions_csv, metrics>>

----------------------------------------------------------------------------
(* The predictions file of lab_7_llm/start.py and TaskEvaluator.run *)

RECURSIVE Join(_)
\* the Python string of a text
Join(text) == IF text = <<>> THEN "" ELSE Head(text) \o Join(Tail(text))

HasNull(cells) == \E i \in DOMAIN cells : IsNull(cells[i])

\* a cell of the target column as to_csv() writes it: a column of integers
\* with a missing value is a column of floats; a missing value is empty
TargetField(l, cells, i) ==
    IF IsNull(cells[i]) THEN ""
    ELSE IF l = "lab_8_sft" THEN Join(cells[i][1])
    ELSE IF HasNull(cells) THEN IntStr(cells[i][1]) \o ".0"
    ELSE IntStr(cells[i][1])

\* a cell of the prediction column as to_csv() writes it
PredictionField(l, cell) ==
    IF l = "lab_8_sft" THEN Join(cell[1]) ELSE cell[1]

\* DataFrame.to_csv(path): the header, then one line per row, the index
\* first
ToCsv(l, df) ==
    [header |-> <<"">> \o df.columns,
     lines  |-> [i \in DOMAIN df.rows |->
                   <<IntStr(df.index[i]),
                     TargetField(l, column(df, "target"), i),
                     PredictionField(l, df.rows[i].prediction)>>]]

IntLiterals == {IntStr(i) : i \in 0..9}
FloatLiterals == {IntStr(i) \o ".0" : i \in 0..9}

ParseNumber(field) ==
    CHOOSE i \in 0..9 : field \in {IntStr(i), IntStr(i) \o ".0"}

\* the values read_csv() makes of the fields of one column: integers when
\* every field is an integer, floats when every field is a number or empty,
\* strings otherwise; an empty field is a missing value
ParseColumn(fields) ==
    IF fields # <<>> /\ \A i \in DOMAIN fields : fields[i] \in IntLiterals
    THEN [dtype |-> "int64",
          cells |-> [i \in DOMAIN fields |-> Some(ParseNumber(fields[i]))]]
    ELSE IF fields # <<>> /\ \A i \in DOMAIN fields :
                fields[i] \in IntLiterals \cup FloatLiterals \cup {""}
    THEN [dtype |-> "float64",
          cells |-> [i \in DOMAIN fields |->
                       IF fields[i] = "" THEN None
                       ELSE Some(ParseNumber(fields[i]))]]
    ELSE [dtype |-> "object",
          cells |-> [i \in DOMAIN fields |->
                       IF fields[i] = "" THEN None ELSE Some(fields[i])]]

\* the name read_csv() gives a column: the header's, or "Unnamed: 0"
CsvColumnName(csv, k) ==
    IF csv.header[k] = "" THEN "Unnamed: 0" ELSE csv.header[k]

\* pd.read_csv(path): column name -> parsed column
ReadCsv(csv) ==
    [name \in {CsvColumnName(csv, k) : k \in DOMAIN csv.header} |->
        LET k == CHOOSE j \in DOMAIN csv.header : CsvColumnName(csv, j) = name
        IN ParseColumn([i \in DOMAIN csv.lines |-> csv.lines[i][k]])]

Score(num, den) == [num |-> num, den |-> den]

\* the micro-averaged F1 of the scorer, 2TP / (2TP + FP + FN): an item
\* predicted right is a true positive, an item predicted wrong is a false
\* positive of the predicted class and a false negative of the true class.
\* The scorer refuses a missing value; of no item at all it may give 0 or
\* refuse.
MicroF1(references, predicted) ==
    LET hit == {i \in DOMAIN references : references[i] = predicted[i]}
        miss == (DOMAIN references) \ hit
        tp == Cardinality(hit)
        fp == Cardinality(miss)
        fn == Cardinality(miss)
    IN IF HasNull(references) \/ HasNull(predicted)
       THEN {[status |-> "raised", score |-> Score(0, 1)]}
       ELSE IF references = <<>>
       THEN {[status |-> "raised", score |-> Score(0, 1)],
             [status |-> "returned", score |-> Score(0, 1)]}
       ELSE {[status |-> "returned",
              score |-> Score(2 * tp, 2 * tp + fp + fn)]}

\* the micro-averaged precision of the scorer, TP / (TP + FP)
MicroPrecision(references, predicted) ==
    LET hit == {i \in DOMAIN references : references[i] = predicted[i]}
        miss == (DOMAIN references) \ hit
    IN IF HasNull(references) \/ HasNull(predicted)
       THEN {[status |-> "raised", score |-> Score(0, 1)]}
       ELSE IF references = <<>>
       THEN {[status |-> "raised", score |-> Score(0, 1)],
             [status |-> "returned", score |-> Score(0, 1)]}
       ELSE {[status |-> "returned",
              score |-> Score(Cardinality(hit),
                              Cardinality(hit) + Cardinality(miss))]}

\* metric_evaluator.compute(references, predictions, average='micro') and
\* res[metric_name] of lab_7_llm
Scorer7(name, references, predicted) ==
    IF name = "f1" THEN MicroF1(references, predicted)
    ELSE MicroPrecision(references, predicted)

\* float(res[field]) of lab_8_sft: the value of the named field of what the
\* scorer computes of the two columns; the number itself is the scorer's
Score8(field, references, predicted) ==
    [field |-> field, references |-> references, predictions |-> predicted]

\* metric.compute(references, predictions) of lab_8_sft, and the field run()
\* takes from it: "bleu" of the metric named bleu, "rougeL" of any other.
\* Whether the scorer refuses a missing value (NaN) or takes it as a text,
\* and whether it refuses no item at all, is the metric library's: both
\* outcomes are kept.
Scorer8(name, references, predicted) ==
    LET field == IF name = "bleu" THEN "bleu" ELSE "rougeL"
        score == Score8(field, references, predicted)
    IN IF HasNull(references) \/ HasNull(predicted) \/ references = <<>>
       THEN {[status |-> "raised", score |-> score],
             [status |-> "returned", score |-> score]}
       ELSE {[status |-> "returned", score |-> score]}

\* the metric identifiers an evaluator of the lab can be constructed with
MetricIds(l) == IF l = "lab_7_llm" THEN {"f1", "precision"} ELSE {"bleu", "rouge"}

\* the metrics the evaluator of the demo is constructed with
RequestedMetrics == {"f1"}

\* the outcomes of the loop of run() over the requested metrics, given the
\* outcomes of each scorer: the mapping has an entry for every metric the
\* loop went through, and run() raises when a scorer does
RunOutcomes(requested, per) ==
    {[status    |-> IF \E name \in requested : f[name].status = "raised"
                    THEN "raised" ELSE "returned",
      value     |-> [name \in requested |-> f[name].score],
      requested |-> requested] :
        f \in {g \in [requested -> UNION {per[name] : name \in requested}] :
                  \A name \in requested : g[name] \in per[name]}}

\* as a run() that hands the target column to the scorer as predictions too
EvaluatorRun7_targets_twice(csv, requested) ==
    LET pred_df == ReadCsv(csv)
    IN RunOutcomes(requested,
                   [name \in requested |->
                       Scorer7(name, pred_df["target"].cells,
                               pred_df["target"].cells)])

\* TaskEvaluator.run of lab_7_llm: the outcomes possible for a file
EvaluatorRun7(csv, requested) ==
    LET pred_df == ReadCsv(csv)
    IN RunOutcomes(requested,
                   [name \in requested |->
                       Scorer7(name, pred_df["target"].cells,
                               pred_df["prediction"].cells)])

\* as a run() whose return statement is inside the loop over the metrics
EvaluatorRun8_return_in_loop(csv, requested) ==
    LET pred_df == ReadCsv(csv)
        first == IF requested = {} THEN {}
                 ELSE {CHOOSE name \in requested : TRUE}
    IN {[r EXCEPT !.requested = requested] :
           r \in RunOutcomes(first,
                    [name \in first |->
                        Scorer8(name, pred_df["target"].cells,
                                pred_df["prediction"].cells)])}

\* TaskEvaluator.run of lab_8_sft: the outcomes possible for a file
EvaluatorRun8(csv, requested) ==
    LET pred_df == ReadCsv(csv)
    IN RunOutcomes(requested,
                   [name \in requested |->
                       Scorer8(name, pred_df["target"].cells,
                               pred_df["prediction"].cells)])

EvaluatorRun(l, csv, requested) ==
    IF l = "lab_7_llm" THEN EvaluatorRun7(csv, requested)
    ELSE EvaluatorRun8(csv, requested)

\* start.py: dataset_inference.to_csv(predictions_path)
to_csv ==
    /\ pc = "idle"
    /\ DatasetReturned
    /\ predictions_csv = None
    /\ predictions_csv' = Some(ToCsv(lab, last[1].value))
    /\ UNCHANGED <<lab, not_infer_vars, dataset, model, batch_size, pc, batches,
                   predictions, events, argmaxes, last, metrics>>

\* start.py: TaskEvaluator(predictions_path, metrics).run()
evaluator_run ==
    /\ predictions_csv # None
    /\ metrics = None
    /\ \E requested \in SUBSET MetricIds(lab) :
          \E r \in EvaluatorRun(lab, predictions_csv[1], requested) :
              metrics' = Some(r)
    /\ UNCHANGED <<lab, not_infer_vars, dataset, model, batch_size, pc, batches,
                   predictions, events, argmaxes, last, predictions_csv>>

\* the clean tables a TaskDataset is built from
CleanTables(l) == {Transform(l, raw) : raw \in RawTables(l)}

\* the variables of the preprocessor once its work is done
NoPreprocessor ==
    /\ raw_data = DataFrame(<<>>, <<>>)
    /\ raw0 = raw_data
    /\ data = None
    /\ analysis = None
    /\ prev_analysis = None
    /\ origin = <<>>
    /\ first_data = None
    /\ n_transform = 0
    /\ n_analyze = 0

InitInfer ==
    /\ NoPreprocessor
    /\ NoSFTPipeline
    /\ NoService
    /\ lab \in Labs
    /\ dataset \in CleanTables(lab)
    /\ model \in {None} \cup {Some(m) : m \in StubModels(lab)}
    /\ batch_size \in 1..MaxBatch
    /\ pc = "idle"
    /\ batches = <<>>
    /\ predictions = <<>>
    /\ events = <<>>
    /\ argmaxes = <<>>
    /\ last = None
    /\ predictions_csv = None
    /\ metrics = None

NextInfer ==
    \/ infer_sample
    \/ infer_dataset_begin
    \/ infer_dataset_batch
    \/ infer_dataset_return
    \/ to_csv
    \/ evaluator_run

SpecInfer == InitInfer /\ [][NextInfer]_vars

----------------------------------------------------------------------------
(* Properties of inference *)

AllText(df) == \A i \in DOMAIN df.rows : ~IsNull(df.rows[i]["source"])

\* the texts handed to the model, call after call
RECURSIVE ModelInputs(_)
ModelInputs(evs) ==
    IF evs = <<>> THEN <<>>
    ELSE (IF Head(evs).call = "model" THEN Head(evs).texts ELSE <<>>)
            \o ModelInputs(Tail(evs))

\* the prediction of the assigned model for one text inferred on its own
PredictionFor(cell) == InferBatch(lab, model, <<<<cell>>>>, MaxLength).value[1]

DatasetInferred == last # None /\ last[1].op = "infer_dataset"

SampleInferred == last # None /\ last[1].op = "infer_sample"

\* C1: with a model assigned and every source a text, infer_dataset()
\* returns, for every dataset length n >= 0 and batch size b >= 1 and in both
\* labs, a table of exactly n rows whose row i pairs the target of clean row
\* i with the prediction for the source of row i; the model is given every
\* item exactly once, in row order, the final partial batch included.
C1_InferDatasetAligned ==
    (DatasetInferred /\ model # None /\ AllText(dataset)) =>
        LET r == last[1] IN
        /\ r.status = "returned"
        /\ r.value.index = dataset.index
        /\ Len(r.value.rows) = Len(dataset.rows)
        /\ \A i \in DOMAIN dataset.rows :
              /\ r.value.rows[i].target = dataset.rows[i]["target"]
              /\ r.value.rows[i].prediction =
                    Some(PredictionFor(dataset.rows[i]["source"]))
        /\ ModelInputs(r.events) = column(dataset, "source")

\* infer_dataset() returned for three rows in batches of two, with
\* predictions that differ from row to row
C1_Witness ==
    /\ DatasetInferred
    /\ last[1].status = "returned"
    /\ Len(dataset.rows) = 3
    /\ batch_size = 2
    /\ last[1].value.rows[1].prediction # last[1].value.rows[3].prediction

\* C2: infer_sample(sample) with no model assigned raises the "no model"
\* value error before any tokenizer or model call; with a model assigned it
\* returns the only prediction of the batch made of that one sample.
C2_InferSampleGuard ==
    SampleInferred =>
        LET r == last[1] IN
        IF model = None
        THEN r.status = "raised" /\ r.error = NoModelError /\ r.events = <<>>
        ELSE ~IsNull(r.arg[1]) =>
                /\ r.status = "returned"
                /\ ModelInputs(r.events) = r.arg
                /\ InferBatch(lab, model, <<r.arg>>, MaxLength).value = <<r.value>>

\* infer_sample was called on a text while no model was assigned
C2_Witness ==
    /\ SampleInferred
    /\ model = None
    /\ ~IsNull(last[1].arg[1])
    /\ last[1].status = "raised"

\* C3: every inference operation attempted without a model (infer_sample,
\* and infer_dataset() on a non-empty dataset through _infer_batch) fails
\* with the "no model" value error, in both labs, and with no other error.
C3_NoModelValueError ==
    (last # None /\ model = None
        /\ (last[1].op = "infer_dataset" => dataset.rows # <<>>)) =>
        last[1].status = "raised" /\ last[1].error = NoModelError

\* the arg-max indices behind the predictions of the last operation
PredictedLabels ==
    IF last[1].op = "infer_sample" THEN <<last[1].value>>
    ELSE [i \in DOMAIN last[1].value.rows |-> last[1].value.rows[i].prediction[1]]

Classified == lab = "lab_7_llm" /\ last # None /\ last[1].status = "returned"

\* C6 as stated: the predicted label is the arg-max index with the codes 0
\* and 2 swapped (0 yields "2", 2 yields "0", any other index itself).
C6_SwapLabels ==
    Classified =>
        \A i \in DOMAIN PredictedLabels :
            LET a == last[1].argmax[i] IN
            PredictedLabels[i] =
                IF a = 0 THEN "2" ELSE IF a = 2 THEN "0" ELSE IntStr(a)

\* C6 as amended: the predicted label is the arg-max index as a string,
\* except that index 0 yields "2"; index 2 yields "2" as well, and the
\* label "0" is never predicted.
C6_ZeroYieldsTwo ==
    Classified =>
        /\ DOMAIN PredictedLabels = DOMAIN last[1].argmax
        /\ \A i \in DOMAIN PredictedLabels :
              LET a == last[1].argmax[i] IN
              /\ PredictedLabels[i] = IF a = 0 THEN "2" ELSE IntStr(a)
              /\ a = 2 => PredictedLabels[i] = "2"
              /\ PredictedLabels[i] # "0"

\* the classification model gave arg-max index 2 for one item and 0 for
\* another of the same dataset
C6_Witness ==
    /\ Classified
    /\ last[1].op = "infer_dataset"
    /\ 2 \in Range(last[1].argmax)
    /\ 0 \in Range(last[1].argmax)

C7_Scenario ==
    /\ lab = "lab_7_llm"
    /\ column(dataset, "source") = <<T("good movie"), T("bad movie"), T("ok movie")>>
    /\ column(dataset, "target") = <<Some(1), Some(2), Some(0)>>
    /\ model = Some([kind |-> "const", cls |-> 1])

\* C7: for the clean table [("good movie", 1), ("bad movie", 2),
\* ("ok movie", 0)] and a stub model whose arg-max is always 1,
\* infer_dataset() of the classification lab pairs the predictions
\* ["1","1","1"] with the targets [1,2,0], and the score of the evaluator
\* over the written predictions file is 1/3.
C7_StubAccuracy ==
    C7_Scenario =>
        /\ DatasetInferred =>
              /\ last[1].status = "returned"
              /\ column(last[1].value, "prediction")
                    = <<Some("1"), Some("1"), Some("1")>>
              /\ column(last[1].value, "target") = <<Some(1), Some(2), Some(0)>>
        /\ (metrics # None /\ metrics[1].requested = RequestedMetrics) =>
              /\ metrics[1].status = "returned"
              /\ \A name \in RequestedMetrics :
                    3 * metrics[1].value[name].num = metrics[1].value[name].den

\* the scenario's predictions were inferred in batches of two, written and
\* evaluated
C7_Witness ==
    /\ C7_Scenario
    /\ batch_size = 2
    /\ DatasetInferred
    /\ predictions_csv # None
    /\ metrics # None
    /\ metrics[1].requested = RequestedMetrics

\* TaskEvaluator.run() has returned a mapping
Evaluated == metrics # None /\ metrics[1].status = "returned"

\* the rows of the predictions table the evaluator read
PredictionRows == Len(predictions_csv[1].lines)

\* C11 as stated: whenever the predictions table has at least one row, the
\* mapping run() returns is non-empty, for every set of requested metrics
\* and in both labs.
C11_NonEmptyWithPredictions ==
    (Evaluated /\ PredictionRows >= 1) => metrics[1].value # <<>>

\* C11 as amended: the mapping run() returns has one entry for each metric
\* the evaluator was constructed with, in both labs: with at least one row
\* and at least one metric it is non-empty, and with no metric it is empty
\* whatever the predictions table holds.
C11_OneEntryPerMetric ==
    Evaluated =>
        /\ DOMAIN metrics[1].value = metrics[1].requested
        /\ (PredictionRows >= 1 /\ metrics[1].requested # {}) =>
              metrics[1].value # <<>>
        /\ metrics[1].requested = {} => metrics[1].value = <<>>

\* the evaluator of the generation lab, constructed with two metrics, has
\* scored a predictions table of two rows or more
C11_Witness ==
    /\ Evaluated
    /\ lab = "lab_8_sft"
    /\ PredictionRows >= 2
    /\ Cardinality(metrics[1].requested) = 2

\* C12: the predictions file written after infer_dataset() has exactly two
\* columns, target and prediction, and exactly one row per dataset item, in
\* the row order of the clean table.
C12_PredictionsFile ==
    predictions_csv # None =>
        LET csv == predictions_csv[1] IN
        /\ Len(csv.header) = 2
        /\ DOMAIN ReadCsv(csv) = {"target", "prediction"}
        /\ Len(csv.lines) = Len(dataset.rows)
        /\ \A i \in DOMAIN csv.lines :
              /\ csv.lines[i][Len(csv.header) - 1] =
                    TargetField(lab, column(dataset, "target"), i)
              /\ csv.lines[i][Len(csv.header)] =
                    PredictionField(lab, Some(predictions[i]))

----------------------------------------------------------------------------
(* SFTPipeline.run of lab_8_sft *)

Unset(params) ==
    \/ params.path = None
    \/ params.batch_size = None
    \/ params.max_steps = None
    \/ params.learning_rate = None

\* as a run() that checks the class of the model before the hyperparameters
RunEntry_type_check_first(params, m) ==
    IF ~m.valid THEN "type_error"
    ELSE IF Unset(params) THEN "skip"
    ELSE "train"

\* the head of run(): the guard on the hyperparameters, then the check of
\* the model's class
RunEntry(params, m) ==
    IF Unset(params) THEN "skip"
    ELSE IF ~m.valid THEN "type_error"
    ELSE "train"

File(name, m) == [name |-> name, trained |-> m.trained, merged |-> m.merged]

\* as TrainingArguments(..., save_strategy="steps", save_steps=1)
TrainingArguments_save_steps(params) ==
    [output_dir                  |-> params.path[1],
     max_steps                   |-> params.max_steps[1],
     per_device_train_batch_size |-> params.batch_size[1],
     learning_rate               |-> params.learning_rate[1],
     save_strategy               |-> "steps",
     load_best_model_at_end      |-> FALSE]

\* TrainingArguments(output_dir=..., max_steps=..., ..., save_strategy="no",
\* load_best_model_at_end=False), of hyperparameters that are all set
TrainingArguments(params) ==
    [output_dir                  |-> params.path[1],
     max_steps                   |-> params.max_steps[1],
     per_device_train_batch_size |-> params.batch_size[1],
     learning_rate               |-> params.learning_rate[1],
     save_strategy               |-> "no",
     load_best_model_at_end      |-> FALSE]

\* the records of the Trainer's default logging under args.output_dir
LogEntry == [name |-> "runs", trained |-> 0, merged |-> FALSE]

\* Trainer(model=..., args=..., train_dataset=...): whether the constructor
\* creates args.output_dir is the library's; the directory is as it was, or
\* it exists
TrainerInit(dir) == {dir, IF dir = None THEN Some({}) ELSE dir}

\* what one step of trainer.train() can leave under args.output_dir: the
\* records of the default logging, which are the library's to write or not,
\* and a checkpoint of the weights unless args.save_strategy is "no"
TrainerStepFiles(args, m) ==
    {logs \cup saved :
        logs \in SUBSET {LogEntry},
        saved \in IF args.save_strategy = "no" THEN {{}}
                  ELSE {{}, {File("checkpoint", m)}}}

\* the directory with files written into it, created when it does not exist
Written(dir, files) ==
    IF files = {} THEN dir
    ELSE IF dir = None THEN Some(files)
    ELSE Some({f \in dir[1] : f.name \notin {g.name : g \in files}} \cup files)

\* the head of run() and, past it, the construction of the training
\* arguments and of the Trainer
sft_run_begin ==
    /\ sft_pc = "ready"
    /\ sft_outcome = None
    /\ LET entry == RunEntry(sft_params, sft_model)
       IN /\ sft_pc' = IF entry = "train" THEN "training" ELSE sft_pc
          /\ sft_outcome' =
                IF entry = "skip" THEN Some("returned")
                ELSE IF entry = "type_error"
                THEN Some("TypeError: Wrong class of model")
                ELSE sft_outcome
          /\ out_dir' \in IF entry = "train" THEN TrainerInit(out_dir)
                          ELSE {out_dir}
    /\ UNCHANGED <<lab, not_sft_vars, sft_params, sft_model, sft_log, out_dir0>>

\* trainer.train(): one optimizer step; args.max_steps bounds the steps
sft_train_step ==
    /\ sft_pc = "training"
    /\ sft_model.trained < TrainingArguments(sft_params).max_steps
    /\ sft_model' = [sft_model EXCEPT !.trained = @ + 1]
    /\ sft_log' = Append(sft_log, "train_step")
    /\ out_dir' \in {Written(out_dir, files) :
                        files \in TrainerStepFiles(TrainingArguments(sft_params),
                                                   sft_model')}
    /\ UNCHANGED <<lab, not_sft_vars, sft_params, sft_pc, sft_outcome, out_dir0>>

\* trainer.train() has returned, after as many steps as the Trainer has made
\* of them: self._model.merge_and_unload()
sft_merge ==
    /\ sft_pc = "training"
    /\ sft_model' = [sft_model EXCEPT !.merged = TRUE]
    /\ sft_log' = Append(sft_log, "merge")
    /\ sft_pc' = "save_model"
    /\ UNCHANGED <<lab, not_sft_vars, sft_params, sft_outcome, out_dir, out_dir0>>

\* merged_model.save_pretrained(self._finetuned_model_path)
sft_save_model ==
    /\ sft_pc = "save_model"
    /\ out_dir' = Written(out_dir, {File("model", sft_model)})
    /\ sft_log' = Append(sft_log, "save_model")
    /\ sft_pc' = "save_tokenizer"
    /\ UNCHANGED <<lab, not_sft_vars, sft_params, sft_model, sft_outcome, out_dir0>>

\* tokenizer.save_pretrained(self._finetuned_model_path), and the return
sft_save_tokenizer ==
    /\ sft_pc = "save_tokenizer"
    /\ out_dir' = Written(out_dir,
                          {[name |-> "tokenizer", trained |-> 0, merged |-> FALSE]})
    /\ sft_log' = Append(sft_log, "save_tokenizer")
    /\ sft_pc' = "done"
    /\ sft_outcome' = Some("returned")
    /\ UNCHANGED <<lab, not_sft_vars, sft_params, sft_model, out_dir0>>

InitSFT ==
    /\ NoPreprocessor
    /\ NoPipeline
    /\ NoService
    /\ lab = "lab_8_sft"
    /\ sft_params \in
          [path          : {None, Some("dist/model")},
           batch_size    : {None, Some(2)},
           max_steps     : {None} \cup {Some(k) : k \in 1..MaxSteps},
           learning_rate : {None, Some("1e-3")}]
    /\ sft_model \in [valid : BOOLEAN, trained : {0}, merged : {FALSE}]
    /\ sft_pc = "ready"
    /\ sft_log = <<>>
    /\ sft_outcome = None
    /\ out_dir \in {None, Some({[name |-> "model", trained |-> 0, merged |-> FALSE]})}
    /\ out_dir0 = out_dir

NextSFT ==
    \/ sft_run_begin
    \/ sft_train_step
    \/ sft_merge
    \/ sft_save_model
    \/ sft_save_tokenizer

SpecSFT == InitSFT /\ [][NextSFT]_vars

----------------------------------------------------------------------------
(* Properties of fine-tuning *)

\* C4: run() with at least one of the four hyperparameters unset returns
\* without an error, also when the wrapped model is not a valid model; it
\* makes no training step, merges nothing, leaves the model as it was and
\* neither creates nor writes the output directory.
C4_RunNoOp ==
    Unset(sft_params) =>
        /\ sft_outcome \in {None, Some("returned")}
        /\ sft_pc = "ready"
        /\ sft_log = <<>>
        /\ sft_model.trained = 0
        /\ ~sft_model.merged
        /\ out_dir = out_dir0

\* run() returned with only the step budget unset, the wrapped object not a
\* valid model and no output directory
C4_Witness ==
    /\ sft_params.max_steps = None
    /\ sft_params.path # None
    /\ sft_params.batch_size # None
    /\ sft_params.learning_rate # None
    /\ ~sft_model.valid
    /\ sft_outcome = Some("returned")
    /\ out_dir = None

\* the steps of a complete run whose training made n steps
ExpectedLog(n) ==
    [i \in 1..n |-> "train_step"] \o <<"merge", "save_model", "save_tokenizer">>

IsPrefix(s, t) == Len(s) <= Len(t) /\ s = SubSeq(t, 1, Len(s))

Files(dir) == IF dir = None THEN {} ELSE dir[1]

\* the files the run has put into the output directory
NewFiles == Files(out_dir) \ Files(out_dir0)

----------------------------------------------------------------------------
(* The service of lab_8_sft: init_application() and the /infer endpoint *)

\* the weights of the pretrained model the settings name
BaseWeights == [trained |-> 0, merged |-> FALSE]

\* stand-in for the model made of weights: the pretrained model gives the
\* first token of the text, a fine-tuned model a text of its own
PretrainedModel(weights) ==
    IF weights.trained = 0 THEN [kind |-> "lead", cls |-> 0]
    ELSE [kind |-> "const", cls |-> 0]

TokenizerFile == [name |-> "tokenizer", trained |-> 0, merged |-> FALSE]

\* LLMPipeline(model_name, ...): from_pretrained of the model, then of the
\* tokenizer; a name is fetched from the hub, a path must hold both
FromPretrained(source, dir) ==
    IF source = "name"
    THEN [ok |-> TRUE, pipeline |-> [source |-> source, weights |-> BaseWeights,
                                     model |-> Some(PretrainedModel(BaseWeights))]]
    ELSE IF dir = None
            \/ (~\E f \in dir[1] : f.name = "model")
            \/ TokenizerFile \notin dir[1]
    THEN [ok |-> FALSE, pipeline |-> [source |-> source, weights |-> BaseWeights,
                                      model |-> None]]
    ELSE LET f == CHOOSE g \in dir[1] : g.name = "model"
             w == [trained |-> f.trained, merged |-> f.merged]
         IN [ok |-> TRUE, pipeline |-> [source |-> source, weights |-> w,
                                        model |-> Some(PretrainedModel(w))]]

\* as a start-up that fine-tunes whether or not the directory exists
ShouldFineTune_always(dir) == TRUE

\* if not finetuned_model_path.exists()
ShouldFineTune(dir) == dir = None

\* as an endpoint that sends every query to the base pipeline
Route_always_base(is_base_model) == "base"

\* if query.is_base_model: pipeline, else: finetuned_pipeline
Route(is_base_model) == IF is_base_model THEN "base" ELSE "finetuned"

\* the questions of the queries
Questions == {<<"storm", " hits">>, <<"rain">>, <<>>}

\* llm_pipeline = LLMPipeline(settings.parameters.model, ...)
svc_load_base ==
    /\ svc_pc = "start"
    /\ svc_base' = Some(FromPretrained("name", out_dir).pipeline)
    /\ svc_log' = Append(svc_log, "load_base")
    /\ svc_pc' = "check"
    /\ UNCHANGED <<lab, not_svc_vars, sft_vars, svc_finetuned,
                   svc_request, svc_calls, svc_response>>

\* if not finetuned_model_path.exists(): main()
svc_check ==
    /\ svc_pc = "check"
    /\ IF ShouldFineTune(out_dir)
       THEN svc_pc' = "main" /\ svc_log' = svc_log \o <<"not_exists", "main">>
       ELSE svc_pc' = "load_finetuned" /\ svc_log' = Append(svc_log, "exists")
    /\ UNCHANGED <<lab, not_svc_vars, sft_vars, svc_base,
                   svc_finetuned,
                   svc_request, svc_calls, svc_response>>

\* main(): the fine-tuning pipeline is constructed from the settings and run
svc_main_run_begin == svc_pc = "main" /\ sft_run_begin
svc_main_train_step == svc_pc = "main" /\ sft_train_step
svc_main_merge == svc_pc = "main" /\ sft_merge
svc_main_save_model == svc_pc = "main" /\ sft_save_model
svc_main_save_tokenizer == svc_pc = "main" /\ sft_save_tokenizer

\* main() has returned, or its error ends init_application()
svc_main_return ==
    /\ svc_pc = "main"
    /\ sft_outcome # None
    /\ IF sft_outcome = Some("returned")
       THEN svc_pc' = "load_finetuned" /\ svc_log' = Append(svc_log, "main_returned")
       ELSE svc_pc' = "failed" /\ svc_log' = Append(svc_log, "main_raised")
    /\ UNCHANGED <<lab, not_svc_vars, sft_vars, svc_base,
                   svc_finetuned,
                   svc_request, svc_calls, svc_response>>

\* finetuned_llm_pipeline = LLMPipeline(str(finetuned_model_path), ...)
svc_load_finetuned ==
    /\ svc_pc = "load_finetuned"
    /\ LET r == FromPretrained("path", out_dir)
       IN IF r.ok
          THEN /\ svc_finetuned' = Some(r.pipeline)
               /\ svc_log' = Append(svc_log, "load_finetuned")
               /\ svc_pc' = "serving"
          ELSE /\ svc_finetuned' = svc_finetuned
               /\ svc_log' = Append(svc_log, "load_raised")
               /\ svc_pc' = "failed"
    /\ UNCHANGED <<lab, not_svc_vars, sft_vars, svc_base,
                   svc_request, svc_calls, svc_response>>

\* POST /infer
svc_infer ==
    /\ svc_pc = "serving"
    /\ \E question \in Questions, is_base_model \in BOOLEAN :
          LET target == Route(is_base_model)
              p == IF target = "base" THEN svc_base[1] ELSE svc_finetuned[1]
              sample == <<Some(question)>>
              r == InferSample(lab, p.model, sample, MaxLength)
          IN /\ svc_request' = Some([question |-> question,
                                     is_base_model |-> is_base_model])
             /\ svc_calls' = <<[pipeline |-> target, sample |-> sample]>>
             /\ svc_response' =
                   IF r.status = "returned"
                   THEN Some([status |-> "returned", body |-> [infer |-> r.value]])
                   ELSE Some([status |-> "raised", body |-> [infer |-> <<>>]])
    /\ UNCHANGED <<lab, not_svc_vars, sft_vars, svc_pc,
                   svc_base,
                   svc_finetuned, svc_log>>

\* the directories an earlier start-up can have left: none, an empty one,
\* or the merged model of a run with or without the tokenizer saved after it
EarlierDirs ==
    {None, Some({})}
      \cup {Some({File("model", [trained |-> k, merged |-> TRUE])}) :
               k \in 1..MaxSteps}
      \cup {Some({File("model", [trained |-> k, merged |-> TRUE]), TokenizerFile}) :
               k \in 1..MaxSteps}

InitService ==
    /\ NoPreprocessor
    /\ NoPipeline
    /\ lab = "lab_8_sft"
    /\ sft_params \in
          [path          : {None, Some("dist/model")},
           batch_size    : {None, Some(2)},
           max_steps     : {None} \cup {Some(k) : k \in 1..MaxSteps},
           learning_rate : {None, Some("1e-3")}]
    /\ sft_model \in [valid : BOOLEAN, trained : {0}, merged : {FALSE}]
    /\ sft_pc = "ready"
    /\ sft_log = <<>>
    /\ sft_outcome = None
    /\ out_dir \in EarlierDirs
    /\ out_dir0 = out_dir
    /\ svc_pc = "start"
    /\ svc_base = None
    /\ svc_finetuned = None
    /\ svc_log = <<>>
    /\ svc_request = None
    /\ svc_calls = <<>>
    /\ svc_response = None
    /\ NoDemo

NextService ==
    \/ svc_load_base
    \/ svc_check
    \/ svc_main_run_begin
    \/ svc_main_train_step
    \/ svc_main_merge
    \/ svc_main_save_model
    \/ svc_main_save_tokenizer
    \/ svc_main_return
    \/ svc_load_finetuned
    \/ svc_infer

SpecService == InitService /\ [][NextService]_vars

----------------------------------------------------------------------------
(* Properties of the service *)

\* the pipeline the query names
Chosen(query) == IF query.is_base_model THEN svc_base[1] ELSE svc_finetuned[1]

\* C13: each query of /infer is forwarded to exactly one pipeline, the base
\* pipeline when is_base_model is true and the fine-tuned pipeline when it
\* is false, with the question as a one-element sample; the other pipeline
\* is not called, and the response is the object with the single field
\* "infer" holding that pipeline's prediction for the question.
C13_Routing ==
    svc_request # None =>
        LET q == svc_request[1] IN
        /\ Len(svc_calls) = 1
        /\ svc_calls[1].pipeline = (IF q.is_base_model THEN "base" ELSE "finetuned")
        /\ svc_calls[1].sample = <<Some(q.question)>>
        /\ svc_response[1].status = "returned"
        /\ DOMAIN svc_response[1].body = {"infer"}
        /\ svc_response[1].body.infer =
              InferBatch(lab, Chosen(q).model, <<<<Some(q.question)>>>>,
                         MaxLength).value[1]

\* a query for the fine-tuned model was answered by a service whose
\* fine-tuned pipeline predicts another text for it than the base pipeline
C13_Witness ==
    /\ svc_request # None
    /\ ~svc_request[1].is_base_model
    /\ svc_response[1].status = "returned"
    /\ svc_response[1].body.infer # <<>>
    /\ svc_response[1].body.infer #
          InferBatch(lab, svc_base[1].model, <<<<Some(svc_request[1].question)>>>>,
                     MaxLength).value[1]

\* init_application() is past its check of the directory
Checked == svc_pc \notin {"off", "start", "check"}

\* main() has been called
MainCalled == sft_outcome # None \/ sft_log # <<>> \/ svc_pc = "main"

\* main() is not running
MainOver == svc_pc # "main" /\ sft_pc \in {"ready", "done"}

\* the directory holds a merged model and the tokenizer
Persisted(dir) ==
    /\ dir # None
    /\ \E f \in dir[1] : f.name = "model" /\ f.merged
    /\ TokenizerFile \in dir[1]

\* C14: at start-up fine-tuning is run if and only if the fine-tuned model
\* directory does not exist; the fine-tuned pipeline is loaded from the
\* directory only after the check and any fine-tuning run have finished; in
\* every start-up that completes the directory holds a merged model and its
\* tokenizer when the fine-tuned pipeline is loaded; the base pipeline is a
\* handle of its own, loaded from the model name.
C14_StartUp ==
    /\ Checked => (MainCalled <=> out_dir0 = None)
    /\ ~Checked => ~MainCalled
    /\ out_dir0 # None => out_dir = out_dir0
    /\ svc_pc = "load_finetuned" =>
          /\ MainOver
          /\ out_dir0 = None => sft_outcome = Some("returned")
    /\ svc_finetuned # None =>
          /\ svc_pc = "serving"
          /\ MainOver
          /\ Persisted(out_dir)
          /\ svc_finetuned[1].source = "path"
          /\ File("model", svc_finetuned[1].weights) \in out_dir[1]
    /\ svc_pc = "serving" => svc_finetuned # None /\ svc_base # None
    /\ svc_base # None =>
          /\ svc_base[1].source = "name"
          /\ svc_base[1].weights = BaseWeights

\* a start-up that found no directory has fine-tuned for two steps and
\* loaded the fine-tuned pipeline
C14_Witness ==
    /\ svc_pc = "serving"
    /\ out_dir0 = None
    /\ sft_log = ExpectedLog(2)
    /\ svc_finetuned[1].weights.trained = 2

----------------------------------------------------------------------------
(* The demo of lab_7_llm: main() of start.py, stage by stage *)

HeadRows == 100
DemoBatchSize == 64

\* the statements of main() that do the work, in the order of the text
Stages ==
    <<"obtain", "analyze", "transform", "dataset", "pipeline", "analyze_model",
      "infer_sample", "infer_dataset", "to_csv", "evaluate">>

StageIndex(stage) == CHOOSE i \in DOMAIN Stages : Stages[i] = stage

\* as a main() that constructs and runs the evaluator before the file is
\* written
After_evaluate_first(stage) ==
    IF stage = "infer_dataset" THEN "evaluate"
    ELSE IF stage = "evaluate" THEN "to_csv"
    ELSE IF stage = "to_csv" THEN "done"
    ELSE Stages[StageIndex(stage) + 1]

\* the statement main() goes on with when a stage has returned
After(stage) ==
    IF stage = "evaluate" THEN "done" ELSE Stages[StageIndex(stage) + 1]

\* df.head(n)
head(df, n) == take(df, {i \in DOMAIN df.rows : i <= n})

\* the loop of infer_dataset() over the batches, to its end or to the
\* first batch that raises
RECURSIVE InferBatches(_, _, _, _, _)
InferBatches(l, df, m, bs, max_length) ==
    IF bs = <<>> THEN Outcome("returned", <<>>, "", <<>>, <<>>)
    ELSE LET collated == Collate([j \in DOMAIN Head(bs) |-> GetItem(df, Head(bs)[j])])
             r == IF collated.ok
                  THEN InferBatch(l, m, collated.batch, max_length)
                  ELSE Outcome("raised", <<>>, "TypeError: default_collate",
                               <<>>, <<>>)
         IN IF r.status # "returned" THEN r
            ELSE LET rest == InferBatches(l, df, m, Tail(bs), max_length)
                 IN Outcome(rest.status,
                            IF rest.status = "returned"
                            THEN r.value \o rest.value ELSE <<>>,
                            rest.error, r.events \o rest.events,
                            r.argmax \o rest.argmax)

\* LLMPipeline.infer_dataset as a whole
InferDataset(l, df, m, b, max_length) ==
    LET r == InferBatches(l, df, m, DataLoaderBatches(DatasetLen(df), b), max_length)
    IN IF r.status # "returned" THEN r
       ELSE [PredictionsFrame(df, r.value)
                EXCEPT !.events = r.events, !.argmax = r.argmax]

\* a predictions file an earlier run has left
StaleCsv ==
    [header |-> <<"", "target", "prediction">>, lines |-> <<<<"0", "1", "2">>>>]

Stage(stage, status) == [stage |-> stage, status |-> status]

\* the stage has returned and main() goes on
Returned(stage) ==
    /\ demo_trace' = Append(demo_trace, Stage(stage, "returned"))
    /\ demo_pc' = After(stage)

\* the stage has raised and main() ends with its error
Raised(stage) ==
    /\ demo_trace' = Append(demo_trace, Stage(stage, "raised"))
    /\ demo_pc' = "raised"

\* what obtain() can be given: a table, or nothing that is a table
Fetched(l) == {None} \cup {Some(raw) : raw \in RawTables(l)}

\* importer.obtain(), which raises when it has no table to keep, and the
\* return of main() when the importer holds none
demo_obtain ==
    /\ demo_pc = "obtain"
    /\ \E fetched \in Fetched(lab) :
          /\ demo_raw' = fetched
          /\ IF fetched = None THEN Raised("obtain")
             ELSE /\ demo_trace' = Append(demo_trace, Stage("obtain", "returned"))
                  /\ demo_pc' = IF demo_raw' = None THEN "returned"
                                ELSE After("obtain")
    /\ UNCHANGED <<lab, prep_vars, infer_vars, not_demo_vars, demo_file0, demo_read>>

\* preprocessor = RawDataPreprocessor(importer.raw_data); preprocessor.analyze()
demo_analyze ==
    /\ demo_pc = "analyze"
    /\ raw_data' = demo_raw[1]
    /\ raw0' = demo_raw[1]
    /\ analysis' = Some(Analyze(lab, demo_raw[1]))
    /\ n_analyze' = n_analyze + 1
    /\ Returned("analyze")
    /\ UNCHANGED <<lab, data, origin, first_data, prev_analysis, n_transform,
                   infer_vars, not_demo_vars, demo_raw, demo_file0, demo_read>>

\* preprocessor.transform()
demo_transform ==
    /\ demo_pc = "transform"
    /\ data' = Some(Data(TransformCall(lab, Preprocessor(raw_data, data))))
    /\ raw_data' = Raw(TransformCall(lab, Preprocessor(raw_data, data)))
    /\ origin' = BeforeReset(lab, raw_data).index
    /\ first_data' = data'
    /\ n_transform' = n_transform + 1
    /\ Returned("transform")
    /\ UNCHANGED <<lab, analysis, prev_analysis, raw0, n_analyze,
                   infer_vars, not_demo_vars, demo_raw, demo_file0, demo_read>>

\* dataset = TaskDataset(preprocessor.data.head(100))
demo_dataset ==
    /\ demo_pc = "dataset"
    /\ dataset' = head(data[1], HeadRows)
    /\ Returned("dataset")
    /\ UNCHANGED <<lab, prep_vars, model, batch_size, pc, batches, predictions,
                   events, argmaxes, last, predictions_csv, metrics,
                   not_demo_vars, demo_raw, demo_file0, demo_read>>

\* pipeline = LLMPipeline(model, dataset, max_length=120, batch_size=64, ...):
\* the model is loaded, or from_pretrained raises
demo_pipeline ==
    /\ demo_pc = "pipeline"
    /\ \E loaded \in {None} \cup {Some(m) : m \in StubModels(lab)} :
          IF loaded = None
          THEN Raised("pipeline") /\ UNCHANGED <<model, batch_size>>
          ELSE Returned("pipeline") /\ model' = loaded /\ batch_size' = DemoBatchSize
    /\ UNCHANGED <<lab, prep_vars, dataset, pc, batches, predictions,
                   events, argmaxes, last, predictions_csv, metrics,
                   not_demo_vars, demo_raw, demo_file0, demo_read>>

\* pipeline.analyze_model()
demo_analyze_model ==
    /\ demo_pc = "analyze_model"
    /\ IF model = None THEN Raised("analyze_model") ELSE Returned("analyze_model")
    /\ UNCHANGED <<lab, prep_vars, infer_vars, not_demo_vars, demo_raw,
                   demo_file0, demo_read>>

\* pipeline.infer_sample(dataset[0]): dataset[0] raises on an empty table
demo_infer_sample ==
    /\ demo_pc = "infer_sample"
    /\ IF DatasetLen(dataset) = 0
       THEN Raised("infer_sample") /\ UNCHANGED last
       ELSE LET sample == GetItem(dataset, 0)
                r == InferSample(lab, model, sample, MaxLength)
            IN /\ last' = Operation("infer_sample", sample, r)
               /\ IF r.status = "returned" THEN Returned("infer_sample")
                  ELSE Raised("infer_sample")
    /\ UNCHANGED <<lab, prep_vars, dataset, model, batch_size, pc, batches,
                   predictions, events, argmaxes, predictions_csv, metrics,
                   not_demo_vars, demo_raw, demo_file0, demo_read>>

\* dataset_inference = pipeline.infer_dataset()
demo_infer_dataset ==
    /\ demo_pc = "infer_dataset"
    /\ LET r == InferDataset(lab, dataset, model, batch_size, MaxLength)
       IN /\ last' = Operation("infer_dataset", <<>>, r)
          /\ events' = r.events
          /\ argmaxes' = r.argmax
          /\ IF r.status = "returned"
             THEN /\ predictions' = [i \in DOMAIN r.value.rows |->
                                        r.value.rows[i].prediction[1]]
                  /\ Returned("infer_dataset")
             ELSE /\ predictions' = <<>>
                  /\ Raised("infer_dataset")
    /\ UNCHANGED <<lab, prep_vars, dataset, model, batch_size, pc, batches,
                   predictions_csv, metrics, not_demo_vars, demo_raw,
                   demo_file0, demo_read>>

\* dataset_inference.to_csv(predictions_path)
demo_to_csv ==
    /\ demo_pc = "to_csv"
    /\ IF DatasetReturned
       THEN predictions_csv' = Some(ToCsv(lab, last[1].value)) /\ Returned("to_csv")
       ELSE UNCHANGED predictions_csv /\ Raised("to_csv")
    /\ UNCHANGED <<lab, prep_vars, dataset, model, batch_size, pc, batches,
                   predictions, events, argmaxes, last, metrics,
                   not_demo_vars, demo_raw, demo_file0, demo_read>>

\* result = TaskEvaluator(predictions_path, metrics).run(), and the assert:
\* read_csv raises when there is no file
demo_evaluate ==
    /\ demo_pc = "evaluate"
    /\ IF predictions_csv = None
       THEN Raised("evaluate") /\ UNCHANGED <<metrics, demo_read>>
       ELSE /\ demo_read' = predictions_csv
            /\ \E r \in EvaluatorRun(lab, predictions_csv[1], RequestedMetrics) :
                  /\ metrics' = Some(r)
                  /\ IF r.status = "returned" THEN Returned("evaluate")
                     ELSE Raised("evaluate")
    /\ UNCHANGED <<lab, prep_vars, dataset, model, batch_size, pc, batches,
                   predictions, events, argmaxes, last, predictions_csv,
                   not_demo_vars, demo_raw, demo_file0>>

InitDemo ==
    /\ lab = "lab_7_llm"
    /\ NoPreprocessor
    /\ NoSFTPipeline
    /\ dataset = DataFrame(<<>>, <<>>)
    /\ model = None
    /\ batch_size = 1
    /\ pc = "idle"
    /\ batches = <<>>
    /\ predictions = <<>>
    /\ events = <<>>
    /\ argmaxes = <<>>
    /\ last = None
    /\ predictions_csv \in {None, Some(StaleCsv)}
    /\ metrics = None
    /\ svc_pc = "off"
    /\ svc_base = None
    /\ svc_finetuned = None
    /\ svc_log = <<>>
    /\ svc_request = None
    /\ svc_calls = <<>>
    /\ svc_response = None
    /\ demo_pc = "obtain"
    /\ demo_trace = <<>>
    /\ demo_raw = None
    /\ demo_file0 = predictions_csv
    /\ demo_read = None
    /\ NoTokenized

NextDemo ==
    \/ demo_obtain
    \/ demo_analyze
    \/ demo_transform
    \/ demo_dataset
    \/ demo_pipeline
    \/ demo_analyze_model
    \/ demo_infer_sample
    \/ demo_infer_dataset
    \/ demo_to_csv
    \/ demo_evaluate

SpecDemo == InitDemo /\ [][NextDemo]_vars

----------------------------------------------------------------------------
(* Properties of the demo *)

StageNames == [i \in DOMAIN demo_trace |-> demo_trace[i].stage]

\* the k-th stage of main() has run and returned
Ran(k) == Len(demo_trace) >= k /\ demo_trace[k].status = "returned"

\* C15: main() runs its stages in the order obtain, analyze, transform,
\* dataset, pipeline, analyze_model, infer_sample, infer_dataset, to_csv,
\* evaluate, each started only when the one before has returned; a stage
\* that raises is the last one run; the evaluator reads the file that this
\* run has written from its own predictions, never an older one; while the
\* importer holds no raw table nothing after obtain is run.
C15_StageOrder ==
    /\ IsPrefix(StageNames, Stages)
    /\ \A i \in DOMAIN demo_trace :
          demo_trace[i].status = "raised" =>
              i = Len(demo_trace) /\ demo_pc = "raised"
    /\ demo_pc = "raised" => demo_trace # <<>>
    /\ demo_pc \in Range(Stages) => demo_pc = Stages[Len(demo_trace) + 1]
    /\ demo_pc = "done" => StageNames = Stages
    /\ demo_raw = None =>
          Len(demo_trace) <= 1 /\ n_analyze = 0 /\ n_transform = 0 /\ data = None
    /\ analysis # None => Ran(1)
    /\ data # None => Ran(2)
    /\ model # None => Ran(4)
    /\ last # None => Ran(6)
    /\ DatasetInferred => Ran(7)
    /\ predictions_csv # demo_file0 => Ran(8)
    /\ metrics # None =>
          /\ Ran(9)
          /\ demo_read = predictions_csv
          /\ demo_read = Some(ToCsv(lab, last[1].value))

\* a run over three clean rows has gone through every stage, with a
\* predictions file of an earlier run in place when it began
C15_Witness ==
    /\ demo_pc = "done"
    /\ demo_file0 = Some(StaleCsv)
    /\ Len(dataset.rows) = 3
    /\ metrics # None
    /\ predictions_csv # demo_file0

----------------------------------------------------------------------------
(* tokenize_sample and TokenizedTaskDataset of lab_8_sft *)

\* the max_length tokenize_sample hands to the tokenizer
SampleMaxLength == 120

\* tokenizer(text, padding="max_length", truncation=True, max_length=n):
\* the tokens of the text, cut to n and padded to n; an input that is not
\* text is refused
TokenizerMaxLength(cell, n) ==
    IF IsNull(cell)
    THEN [ok |-> FALSE, input_ids |-> <<>>, attention_mask |-> <<>>]
    ELSE LET toks == Truncate(cell[1], n)
         IN [ok |-> TRUE,
             input_ids |-> toks \o [j \in 1..(n - Len(toks)) |-> "<pad>"],
             attention_mask |-> [j \in 1..n |-> IF j <= Len(toks) THEN 1 ELSE 0]]

\* tokenize_sample(sample, tokenizer, max_length): both calls of the
\* tokenizer are made with max_length=120, whatever the parameter
tokenize_sample(sample, max_length) ==
    LET tokenized_source == TokenizerMaxLength(sample["source"], SampleMaxLength)
        tokenized_target == TokenizerMaxLength(sample["target"], SampleMaxLength)
    IN [ok |-> tokenized_source.ok /\ tokenized_target.ok,
        item |-> [input_ids      |-> tokenized_source.input_ids,
                  attention_mask |-> tokenized_source.attention_mask,
                  labels         |-> tokenized_target.input_ids]]

\* TokenizedTaskDataset.__init__: list(data.apply(tokenize_sample, axis=1)),
\* the outcomes possible. A sample the tokenizer refuses makes the
\* construction raise. Of a table with no rows apply() gives either no item
\* or, the function having failed on its trial row, the table itself, whose
\* list is its column names.
TokenizedData(df, max_length) ==
    LET results == [i \in DOMAIN df.rows |-> tokenize_sample(df.rows[i], max_length)]
    IN IF df.rows = <<>>
       THEN {[status |-> "returned", items |-> <<>>],
             [status |-> "returned", items |-> df.columns]}
       ELSE IF \E i \in DOMAIN results : ~results[i].ok
       THEN {[status |-> "raised", items |-> <<>>]}
       ELSE {[status |-> "returned",
              items |-> [i \in DOMAIN results |-> results[i].item]]}

\* the values of max_length a dataset is configured with
ConfiguredLengths == {2, SampleMaxLength, SampleMaxLength + 8}

\* TokenizedTaskDataset(data, tokenizer, max_length)
tok_construct ==
    /\ tok_data = None
    /\ \E r \in TokenizedData(data[1], tok_m) : tok_data' = Some(r)
    /\ UNCHANGED <<lab, prep_vars, not_tok_vars, tok_m, tok_got>>

\* TokenizedTaskDataset.__getitem__(index): dict(self._data[index]), which
\* raises when the element is a column name
tok_getitem ==
    /\ tok_data # None
    /\ tok_data[1].status = "returned"
    /\ \E index \in 0..(Len(tok_data[1].items) - 1) :
          tok_got' = Some([index  |-> index,
                           status |-> IF data[1].rows = <<>> THEN "raised"
                                      ELSE "returned",
                           item   |-> <<tok_data[1].items[index + 1]>>])
    /\ UNCHANGED <<lab, prep_vars, not_tok_vars, tok_m, tok_data>>

InitTok ==
    /\ lab = "lab_8_sft"
    /\ raw_data = DataFrame(<<>>, <<>>)
    /\ raw0 = raw_data
    /\ data \in {Some(df) : df \in CleanTables(lab)}
    /\ analysis = None
    /\ prev_analysis = None
    /\ origin = <<>>
    /\ first_data = data
    /\ n_transform = 1
    /\ n_analyze = 0
    /\ NoPipeline
    /\ NoSFTPipeline
    /\ svc_pc = "off"
    /\ svc_base = None
    /\ svc_finetuned = None
    /\ svc_log = <<>>
    /\ svc_request = None
    /\ svc_calls = <<>>
    /\ svc_response = None
    /\ demo_pc = "off"
    /\ demo_trace = <<>>
    /\ demo_raw = None
    /\ demo_file0 = None
    /\ demo_read = None
    /\ tok_m \in ConfiguredLengths
    /\ tok_data = None
    /\ tok_got = None

NextTok == tok_construct \/ tok_getitem

SpecTok == InitTok /\ [][NextTok]_vars

\* the tokenized dataset was constructed
Tokenized == tok_data # None /\ tok_data[1].status = "returned"

\* a text cut to m tokens when longer and padded to m when shorter
FixedLength(text, m) ==
    [j \in 1..m |-> IF j <= Len(text) THEN text[j] ELSE "<pad>"]

\* C16: for every configured maximum length m the tokenized dataset has as
\* many items as the clean table has rows, and the item of every row has
\* input_ids, attention_mask and labels of length exactly m, the source and
\* the target cut to m when longer and padded to m when shorter.
C16_FixedLengthItems ==
    Tokenized =>
        LET items == tok_data[1].items
            rows == data[1].rows
        IN /\ Len(items) = Len(rows)
           /\ \A i \in DOMAIN items :
                 /\ Len(items[i].input_ids) = tok_m
                 /\ Len(items[i].attention_mask) = tok_m
                 /\ Len(items[i].labels) = tok_m
                 /\ items[i].input_ids = FixedLength(rows[i]["source"][1], tok_m)
                 /\ items[i].labels = FixedLength(rows[i]["target"][1], tok_m)

====
